---- MODULE Spec2Model ----
(***************************************************************************)
(* Client scripts of kra_etims_frappe: form refresh hooks and list-view    *)
(* onload hooks that register buttons, the click handlers that issue       *)
(* frappe.call requests, and the success / error callbacks of those calls. *)
(***************************************************************************)
EXTENDS Integers, Sequences, FiniteSets, TLC

VARIABLES
  route,            \* the view the browser shows ("none" before any view is opened)
  list_buttons,     \* inner buttons of the list view being shown (listview.page)
  custom_buttons,   \* per form: the custom buttons on frm.page
  frm,              \* per form: the document the frm object holds (frm.doc, frm.is_new())
  inflight,         \* requests issued by frappe.call and not yet answered
  next_id,          \* number of the next request
  freeze_count,     \* the host's count of freeze overlays being shown
  msgprints,        \* the messages frappe.msgprint has shown, in order
  console,          \* the lines written by console.log, in order
  clicks,           \* per button label: how many clicks its handler has served
  issued,           \* per remote method: how many requests were issued to it
  last_answer,      \* the request answered last, and how it was answered
  latest_validation \* the validation request of the most recent refresh of the
                    \* eTims Registered Purchases form, and how it was answered

vars == <<route, list_buttons, custom_buttons, frm, inflight, next_id, freeze_count,
          msgprints, console, clicks, issued, last_answer, latest_validation>>

----------------------------------------------------------------------------
(* Bounds of the exploration *)

\* total number of requests issued in one behaviour
MaxCalls == 2

----------------------------------------------------------------------------
(* Views *)

UserForm      == "eTims User (form)"
PurchasesForm == "eTims Registered Purchases (form)"
BranchList        == "Branch (list)"
PurchasesList     == "eTims Registered Purchases (list)"
UserList          == "eTims User (list)"
ImportedItemList  == "eTims Registered Imported Item (list)"
StockMovementList == "eTims Registered Stock Movement (list)"

Forms == {UserForm, PurchasesForm}
Lists == {BranchList, PurchasesList, UserList, ImportedItemList, StockMovementList}

\* the documents a form may be opened on
Docs == {"DOC-0001"}
NoDoc == "no document"

(* Button labels *)
SubmitBranchUserDetailsLabel == "Submit Branch User Details"
GetImportedItemsLabel        == "Get Imported Items"
GetStockMovementsLabel       == "Get Stock Movements"
GetBranchesLabel             == "Get Branches"
CreateSupplierLabel          == "Create Supplier"
CreateItemsLabel             == "Create Items"
CreatePurchaseInvoiceLabel   == "Create Purchase Invoice"
GetRaisedPurchasesLabel      == "Get Raised Purchases"
CreateFromCurrentSystemUsersLabel == "Create from Current System Users"

Labels == {SubmitBranchUserDetailsLabel, GetImportedItemsLabel, GetStockMovementsLabel,
           GetBranchesLabel, CreateSupplierLabel, CreateItemsLabel,
           CreatePurchaseInvoiceLabel, GetRaisedPurchasesLabel,
           CreateFromCurrentSystemUsersLabel}

\* origin of the one request that no button issues
RefreshOrigin == "refresh"

(* Remote methods *)
save_branch_user_details == "kra_etims_frappe.kra_etims.apis.apis.save_branch_user_details"
perform_import_item_search_all_branches ==
  "kra_etims_frappe.kra_etims.apis.apis.perform_import_item_search_all_branches"
perform_stock_movement_search_all_branches ==
  "kra_etims_frappe.kra_etims_frappe.apis.apis.perform_stock_movement_search_all_branches"
search_branch_request == "kra_etims_frappe.kra_etims_frappe.apis.apis.search_branch_request"
create_supplier_from_fetched_registered_purchases ==
  "kra_etims_frappe.kra_etims_frappe.apis.apis.create_supplier_from_fetched_registered_purchases"
validate_item_mapped_and_registered ==
  "kra_etims_frappe.kra_etims_frappe.doctype.etims_registered_purchases.etims_registered_purchases.validate_item_mapped_and_registered"
create_items_from_fetched_registered_purchases ==
  "kra_etims_frappe.kra_etims_frappe.apis.apis.create_items_from_fetched_registered_purchases"
create_purchase_invoice_from_request ==
  "kra_etims_frappe.kra_etims_frappe.apis.apis.create_purchase_invoice_from_request"
perform_purchases_search_all_branches ==
  "kra_etims_frappe.kra_etims_frappe.apis.apis.perform_purchases_search_all_branches"
create_branch_user == "kra_etims_frappe.kra_etims_frappe.apis.apis.create_branch_user"

Methods == {save_branch_user_details, perform_import_item_search_all_branches,
            perform_stock_movement_search_all_branches, search_branch_request,
            create_supplier_from_fetched_registered_purchases,
            validate_item_mapped_and_registered,
            create_items_from_fetched_registered_purchases,
            create_purchase_invoice_from_request,
            perform_purchases_search_all_branches, create_branch_user}

(* Values *)

\* frappe.boot.sysdefaults.company
companyName == <<"sysdefaults", "company">>

\* frm.doc.<attr>: the value of an attribute of the document the form holds
DocField(f, attr) == <<frm[f].doc, attr>>

\* the items table of document d, as the refresh hook reads it from frm.doc
ItemsOf(d) == <<d, "items">>

\* response.message, as the server may answer
Messages == {"false", "true", "null"}

\* variant: !response.message
IsFalsy(m) == m \in {"false", "null"}

\* response.message === false
IsExactlyFalse(m) == m = "false"

\* bookkeeping: no request answered yet; the most recent refresh issued no request
NoAnswer == [outcome |-> "none"]
NoValidation == [id |-> 0, answer |-> "none"]

(* Messages shown *)
QueuedText         == "Request queued. Please check in later."
QueuedConsoleText  == "Request queued. Please check in later"
ValidateFailedText == "Failed to validate items."

----------------------------------------------------------------------------
(* The options object each handler passes to frappe.call *)

\* variant: the request is sent without the freeze option
SubmitBranchUserDetailsOptsNoFreeze ==
  [method |-> save_branch_user_details,
   args   |-> [request_data |->
                [name            |-> DocField(UserForm, "name"),
                 company_name    |-> companyName,
                 user_id         |-> DocField(UserForm, "system_user"),
                 full_names      |-> DocField(UserForm, "users_full_names"),
                 branch_id       |-> DocField(UserForm, "custom_etims_branch_id"),
                 registration_id |-> DocField(UserForm, "owner"),
                 modifier_id     |-> DocField(UserForm, "modified_by")]],
   freeze |-> FALSE,
   origin |-> SubmitBranchUserDetailsLabel]

SubmitBranchUserDetailsOpts ==
  [method |-> save_branch_user_details,
   args   |-> [request_data |->
                [name            |-> DocField(UserForm, "name"),
                 company_name    |-> companyName,
                 user_id         |-> DocField(UserForm, "system_user"),
                 full_names      |-> DocField(UserForm, "users_full_names"),
                 branch_id       |-> DocField(UserForm, "custom_etims_branch_id"),
                 registration_id |-> DocField(UserForm, "owner"),
                 modifier_id     |-> DocField(UserForm, "modified_by")]],
   freeze |-> TRUE,
   origin |-> SubmitBranchUserDetailsLabel]

GetImportedItemsOpts ==
  [method |-> perform_import_item_search_all_branches,
   args   |-> [request_data |-> [company_name |-> companyName]],
   freeze |-> TRUE,
   origin |-> GetImportedItemsLabel]

GetStockMovementsOpts ==
  [method |-> perform_stock_movement_search_all_branches,
   args   |-> [request_data |-> [company_name |-> companyName]],
   freeze |-> FALSE,
   origin |-> GetStockMovementsLabel]

GetBranchesOpts ==
  [method |-> search_branch_request,
   args   |-> [request_data |-> [company_name |-> companyName]],
   freeze |-> FALSE,
   origin |-> GetBranchesLabel]

\* variant: supplier_branch_id is left out of the payload
CreateSupplierOptsNoBranch ==
  [method |-> create_supplier_from_fetched_registered_purchases,
   args   |-> [request_data |->
                [name               |-> DocField(PurchasesForm, "name"),
                 company_name       |-> companyName,
                 supplier_name      |-> DocField(PurchasesForm, "supplier_name"),
                 supplier_pin       |-> DocField(PurchasesForm, "supplier_pin")]],
   freeze |-> FALSE,
   origin |-> CreateSupplierLabel]

CreateSupplierOpts ==
  [method |-> create_supplier_from_fetched_registered_purchases,
   args   |-> [request_data |->
                [name               |-> DocField(PurchasesForm, "name"),
                 company_name       |-> companyName,
                 supplier_name      |-> DocField(PurchasesForm, "supplier_name"),
                 supplier_pin       |-> DocField(PurchasesForm, "supplier_pin"),
                 supplier_branch_id |-> DocField(PurchasesForm, "supplier_branch_id")]],
   freeze |-> FALSE,
   origin |-> CreateSupplierLabel]

ValidateItemsOpts(d) ==
  [method |-> validate_item_mapped_and_registered,
   args   |-> [items |-> ItemsOf(d)],
   freeze |-> FALSE,
   origin |-> RefreshOrigin]

CreateItemsOpts ==
  [method |-> create_items_from_fetched_registered_purchases,
   args   |-> [request_data |->
                [name         |-> DocField(PurchasesForm, "name"),
                 company_name |-> companyName,
                 items        |-> DocField(PurchasesForm, "items")]],
   freeze |-> FALSE,
   origin |-> CreateItemsLabel]

CreatePurchaseInvoiceOpts ==
  [method |-> create_purchase_invoice_from_request,
   args   |-> [request_data |->
                [name                  |-> DocField(PurchasesForm, "name"),
                 company_name          |-> companyName,
                 supplier_name         |-> DocField(PurchasesForm, "supplier_name"),
                 supplier_pin          |-> DocField(PurchasesForm, "supplier_pin"),
                 supplier_branch_id    |-> DocField(PurchasesForm, "supplier_branch_id"),
                 supplier_invoice_no   |-> DocField(PurchasesForm, "supplier_invoice_number"),
                 supplier_invoice_date |-> DocField(PurchasesForm, "sales_date"),
                 items                 |-> DocField(PurchasesForm, "items")]],
   freeze |-> FALSE,
   origin |-> CreatePurchaseInvoiceLabel]

\* variant: the handler was copied from another list view with its method
GetRaisedPurchasesOptsCopiedMethod ==
  [method |-> perform_import_item_search_all_branches,
   args   |-> [request_data |-> [company_name |-> companyName]],
   freeze |-> FALSE,
   origin |-> GetRaisedPurchasesLabel]

GetRaisedPurchasesOpts ==
  [method |-> perform_purchases_search_all_branches,
   args   |-> [request_data |-> [company_name |-> companyName]],
   freeze |-> FALSE,
   origin |-> GetRaisedPurchasesLabel]

CreateFromCurrentSystemUsersOpts ==
  [method |-> create_branch_user,
   args   |-> [request_data |-> [company_name |-> companyName]],
   freeze |-> FALSE,
   origin |-> CreateFromCurrentSystemUsersLabel]

----------------------------------------------------------------------------
(* frappe.call: the request joins the requests in flight; with freeze the  *)
(* overlay is shown until the request is answered                          *)

\* variant: a new request aborts the earlier request of the same origin
FrappeCallAbortingPrevious(opts) ==
  {c \in inflight : c.origin # opts.origin}
    \cup {[id |-> next_id, method |-> opts.method, args |-> opts.args,
            freeze |-> opts.freeze, origin |-> opts.origin]}

FrappeCall(opts) ==
  inflight \cup {[id |-> next_id, method |-> opts.method, args |-> opts.args,
                  freeze |-> opts.freeze, origin |-> opts.origin]}

IssuedAfterCall(opts) == [issued EXCEPT ![opts.method] = @ + 1]

FreezeAfterCall(opts) == IF opts.freeze THEN freeze_count + 1 ELSE freeze_count

\* a click reaches a button only when it is on the view being shown and no
\* freeze overlay covers the page
Frozen == freeze_count > 0

Clickable(view, label) ==
  /\ ~Frozen
  /\ route = view
  /\ label \in (IF view \in Forms THEN custom_buttons[view] ELSE list_buttons)

\* the body shared by every click handler: one frappe.call with the handler's options
Click(view, label, opts) ==
  /\ Clickable(view, label)
  /\ next_id <= MaxCalls
  /\ clicks' = [clicks EXCEPT ![label] = @ + 1]
  /\ inflight' = FrappeCall(opts)
  /\ freeze_count' = FreezeAfterCall(opts)
  /\ issued' = IssuedAfterCall(opts)
  /\ next_id' = next_id + 1
  /\ UNCHANGED <<route, list_buttons, custom_buttons, frm, msgprints, console,
                 last_answer, latest_validation>>

----------------------------------------------------------------------------
(* Form refresh hooks.  The host clears the form's custom buttons before   *)
(* it triggers refresh; d and n are the document the form now holds and    *)
(* what frm.is_new() answers for it.                                       *)

\* variant: the hook does not ask frm.is_new()
EtimsUserRefreshButtonsUnguarded(n) == {SubmitBranchUserDetailsLabel}

\* etims_user.js: buttons the refresh hook adds
EtimsUserRefreshButtons(n) == IF ~n THEN {SubmitBranchUserDetailsLabel} ELSE {}

EtimsUserFormRefresh(d, n) ==
  /\ route' = UserForm
  /\ list_buttons' = {}
  /\ frm' = [frm EXCEPT ![UserForm] = [doc |-> d, is_new |-> n]]
  /\ custom_buttons' = [custom_buttons EXCEPT ![UserForm] = EtimsUserRefreshButtons(n)]
  /\ UNCHANGED <<inflight, next_id, freeze_count, msgprints, console, clicks,
                 issued, last_answer, latest_validation>>

\* branch_list.js: buttons the refresh hook itself adds (Create Items is left
\* to the callback of the validation request)
RegisteredPurchasesRefreshButtons(n) ==
  IF ~n THEN {CreateSupplierLabel, CreatePurchaseInvoiceLabel} ELSE {}

\* variant: the validation request is issued for new documents too
RegisteredPurchasesRefreshCallsUnguarded(d, n) == {ValidateItemsOpts(d)}

\* branch_list.js: the requests the refresh hook issues
RegisteredPurchasesRefreshCalls(d, n) == IF ~n THEN {ValidateItemsOpts(d)} ELSE {}

RegisteredPurchasesFormRefresh(d, n) ==
  LET calls == RegisteredPurchasesRefreshCalls(d, n) IN
  /\ calls # {} => next_id <= MaxCalls
  /\ route' = PurchasesForm
  /\ list_buttons' = {}
  /\ frm' = [frm EXCEPT ![PurchasesForm] = [doc |-> d, is_new |-> n]]
  /\ custom_buttons' =
       [custom_buttons EXCEPT ![PurchasesForm] = RegisteredPurchasesRefreshButtons(n)]
  /\ IF calls # {}
       THEN /\ inflight' = FrappeCall(CHOOSE o \in calls : TRUE)
            /\ freeze_count' = FreezeAfterCall(CHOOSE o \in calls : TRUE)
            /\ issued' = IssuedAfterCall(CHOOSE o \in calls : TRUE)
            /\ latest_validation' = [id |-> next_id, answer |-> "pending"]
            /\ next_id' = next_id + 1
       ELSE /\ latest_validation' = NoValidation
            /\ UNCHANGED <<inflight, next_id, freeze_count, issued>>
  /\ UNCHANGED <<msgprints, console, clicks, last_answer>>

----------------------------------------------------------------------------
(* List-view onload hooks: each adds one inner button to the list's page *)

ListOnload(view, label) ==
  /\ route' = view
  /\ list_buttons' = {label}
  /\ UNCHANGED <<custom_buttons, frm, inflight, next_id, freeze_count, msgprints,
                 console, clicks, issued, last_answer, latest_validation>>

BranchListOnload                 == ListOnload(BranchList, GetBranchesLabel)
RegisteredPurchasesListOnload    == ListOnload(PurchasesList, GetRaisedPurchasesLabel)
EtimsUserListOnload              == ListOnload(UserList, CreateFromCurrentSystemUsersLabel)
RegisteredImportedItemListOnload == ListOnload(ImportedItemList, GetImportedItemsLabel)
RegisteredStockMovementListOnload == ListOnload(StockMovementList, GetStockMovementsLabel)

----------------------------------------------------------------------------
(* Click handlers *)

SubmitBranchUserDetails ==
  Click(UserForm, SubmitBranchUserDetailsLabel, SubmitBranchUserDetailsOpts)
GetImportedItems  == Click(ImportedItemList, GetImportedItemsLabel, GetImportedItemsOpts)
GetStockMovements == Click(StockMovementList, GetStockMovementsLabel, GetStockMovementsOpts)
GetBranches       == Click(BranchList, GetBranchesLabel, GetBranchesOpts)
CreateSupplier    == Click(PurchasesForm, CreateSupplierLabel, CreateSupplierOpts)
CreateItems       == Click(PurchasesForm, CreateItemsLabel, CreateItemsOpts)
CreatePurchaseInvoice ==
  Click(PurchasesForm, CreatePurchaseInvoiceLabel, CreatePurchaseInvoiceOpts)
GetRaisedPurchases == Click(PurchasesList, GetRaisedPurchasesLabel, GetRaisedPurchasesOpts)
CreateFromCurrentSystemUsers ==
  Click(UserList, CreateFromCurrentSystemUsersLabel, CreateFromCurrentSystemUsersOpts)

----------------------------------------------------------------------------
(* Callbacks.  origin names the frappe.call whose callbacks run; m is       *)
(* response.message.                                                        *)

\* variant: every success callback shows the acknowledgment
CallbackMsgprintsEverywhere(origin) == <<QueuedText>>

\* what the success callbacks hand to frappe.msgprint
CallbackMsgprints(origin) ==
  IF origin = SubmitBranchUserDetailsLabel THEN <<QueuedText>> ELSE <<>>

\* what the success callbacks hand to console.log
CallbackConsole(origin) ==
  IF origin = GetBranchesLabel THEN <<QueuedConsoleText>> ELSE <<>>

\* the buttons the success callbacks add to the eTims Registered Purchases form
CallbackButtons(origin, m) ==
  IF origin = RefreshOrigin /\ IsExactlyFalse(m) THEN {CreateItemsLabel} ELSE {}

\* what the error callbacks hand to frappe.msgprint
ErrorMsgprints(origin) ==
  IF origin = RefreshOrigin THEN <<ValidateFailedText>> ELSE <<>>

\* bookkeeping: response.message where the callback reads it (only the callback of
\* the validation request does)
MessageRead(origin, m) == IF origin = RefreshOrigin THEN m ELSE "unread"

\* bookkeeping: the answer a, when it is to the most recent refresh's request
ValidationAfterAnswer(c, a) ==
  IF c.id = latest_validation.id THEN [latest_validation EXCEPT !.answer = a]
  ELSE latest_validation

\* the host removes the overlay of a freezing request when it is answered
FreezeAfterAnswer(c) == IF c.freeze THEN freeze_count - 1 ELSE freeze_count

\* the request c is answered with success: its callback runs
Callback(c, m) ==
  /\ c \in inflight
  /\ inflight' = inflight \ {c}
  /\ freeze_count' = FreezeAfterAnswer(c)
  /\ last_answer' = [call |-> c, outcome |-> "success", message |-> MessageRead(c.origin, m)]
  /\ latest_validation' = ValidationAfterAnswer(c, MessageRead(c.origin, m))
  /\ msgprints' = msgprints \o CallbackMsgprints(c.origin)
  /\ console' = console \o CallbackConsole(c.origin)
  /\ custom_buttons' =
       [custom_buttons EXCEPT ![PurchasesForm] = @ \cup CallbackButtons(c.origin, m)]
  /\ UNCHANGED <<route, list_buttons, frm, next_id, clicks, issued>>

\* the request c fails: its error callback runs
Error(c) ==
  /\ c \in inflight
  /\ inflight' = inflight \ {c}
  /\ freeze_count' = FreezeAfterAnswer(c)
  /\ last_answer' = [call |-> c, outcome |-> "error", message |-> "none"]
  /\ latest_validation' = ValidationAfterAnswer(c, "error")
  /\ msgprints' = msgprints \o ErrorMsgprints(c.origin)
  /\ UNCHANGED <<route, list_buttons, custom_buttons, frm, next_id, console, clicks,
                 issued>>

----------------------------------------------------------------------------
Init ==
  /\ route = "none"
  /\ list_buttons = {}
  /\ custom_buttons = [f \in Forms |-> {}]
  /\ frm = [f \in Forms |-> [doc |-> NoDoc, is_new |-> TRUE]]
  /\ inflight = {}
  /\ next_id = 1
  /\ freeze_count = 0
  /\ msgprints = <<>>
  /\ console = <<>>
  /\ clicks = [l \in Labels |-> 0]
  /\ issued = [m \in Methods |-> 0]
  /\ last_answer = NoAnswer
  /\ latest_validation = NoValidation

Next ==
  \/ \E d \in Docs, n \in BOOLEAN : EtimsUserFormRefresh(d, n)
  \/ \E d \in Docs, n \in BOOLEAN : RegisteredPurchasesFormRefresh(d, n)
  \/ BranchListOnload
  \/ RegisteredPurchasesListOnload
  \/ EtimsUserListOnload
  \/ RegisteredImportedItemListOnload
  \/ RegisteredStockMovementListOnload
  \/ SubmitBranchUserDetails
  \/ GetImportedItems
  \/ GetStockMovements
  \/ GetBranches
  \/ CreateSupplier
  \/ CreateItems
  \/ CreatePurchaseInvoice
  \/ GetRaisedPurchases
  \/ CreateFromCurrentSystemUsers
  \/ \E c \in inflight, m \in Messages : Callback(c, m)
  \/ \E c \in inflight : Error(c)

Spec == Init /\ [][Next]_vars

\* the shape of the state
TypeOK ==
  /\ route \in Forms \cup Lists \cup {"none"}
  /\ list_buttons \subseteq Labels
  /\ custom_buttons \in [Forms -> SUBSET Labels]
  /\ frm \in [Forms -> [doc : Docs \cup {NoDoc}, is_new : BOOLEAN]]
  /\ \A c \in inflight :
       /\ c.id \in 1..(next_id - 1)
       /\ c.method \in Methods
       /\ c.freeze \in BOOLEAN
       /\ c.origin \in Labels \cup {RefreshOrigin}
  /\ next_id \in 1..(MaxCalls + 1)
  /\ freeze_count \in 0..MaxCalls
  /\ \A i \in 1..Len(msgprints) : msgprints[i] \in {QueuedText, ValidateFailedText}
  /\ \A i \in 1..Len(console) : console[i] = QueuedConsoleText
  /\ clicks \in [Labels -> 0..MaxCalls]
  /\ issued \in [Methods -> 0..MaxCalls]
  /\ last_answer.outcome \in {"none", "success", "error"}
  /\ latest_validation.id \in 0..MaxCalls
  /\ latest_validation.answer \in Messages \cup {"none", "pending", "error"}

----------------------------------------------------------------------------
(* Properties *)

\* every request the client has issued and can still name
KnownCalls ==
  inflight \cup (IF last_answer.outcome # "none" THEN {last_answer.call} ELSE {})

\* a request was answered in this step; with success; with failure
Answered == last_answer' # last_answer
AnsweredWith(outcome) == Answered /\ last_answer'.outcome = outcome

\* the requests this step issued
NewCalls == inflight' \ inflight

\* the button a click handler served in this step
ClickOn(b) == clicks'[b] = clicks[b] + 1

\* the endpoint each button is wired to
WiredEndpoint ==
  (SubmitBranchUserDetailsLabel :> save_branch_user_details)
  @@ (GetImportedItemsLabel :> perform_import_item_search_all_branches)
  @@ (GetBranchesLabel :> search_branch_request)
  @@ (CreateSupplierLabel :> create_supplier_from_fetched_registered_purchases)
  @@ (CreateItemsLabel :> create_items_from_fetched_registered_purchases)
  @@ (CreatePurchaseInvoiceLabel :> create_purchase_invoice_from_request)
  @@ (GetRaisedPurchasesLabel :> perform_purchases_search_all_branches)
  @@ (CreateFromCurrentSystemUsersLabel :> create_branch_user)
  @@ (GetStockMovementsLabel :> perform_stock_movement_search_all_branches)

\* C1, as an invariant: the calls issued to a button's endpoint are as many as the
\* clicks on the button
CallsMatchClicks == \A b \in Labels : issued[WiredEndpoint[b]] = clicks[b]

\* C1, as a step: a click issues exactly one call, to the button's endpoint
ClickIssuesOneCall ==
  \A b \in Labels :
    ClickOn(b) =>
      /\ \A other \in Labels \ {b} : clicks'[other] = clicks[other]
      /\ \E c \in NewCalls :
           /\ inflight' = inflight \cup {c}
           /\ c.method = WiredEndpoint[b]
           /\ c.origin = b
      /\ issued' = [issued EXCEPT ![WiredEndpoint[b]] = @ + 1]

\* C1: each click on a registered button issues exactly one remote call, to the one
\* endpoint wired to that button, and after any sequence of clicks the number of
\* calls issued to an endpoint equals the number of clicks on its button.
C1_OneCallPerClick == []CallsMatchClicks /\ [][ClickIssuesOneCall]_vars

\* C1 witness: one button was clicked twice, so its endpoint was called twice
C1_Witness == \E b \in Labels : clicks[b] = 2 /\ issued[WiredEndpoint[b]] = 2

\* C2: when a remote call fails the client shows no message of its own: the
\* messages shown are unchanged by the failure.
C2_FailureShowsNothing ==
  [][AnsweredWith("error") => msgprints' = msgprints /\ console' = console]_vars

\* C3 as stated: when a remote call succeeds the client presents the generic
\* "queued" acknowledgment to the user.
C3_SuccessShowsQueued ==
  [][AnsweredWith("success") => msgprints' = Append(msgprints, QueuedText)]_vars

\* C3 amended: the acknowledgment is presented for Submit Branch User Details alone;
\* a successful Get Branches writes the text to the browser console, and the
\* success callback of every other call presents nothing.
C3_SuccessShowsQueuedForSubmitOnly ==
  [][AnsweredWith("success") =>
       LET origin == last_answer'.call.origin IN
       /\ msgprints' = (IF origin = SubmitBranchUserDetailsLabel
                          THEN Append(msgprints, QueuedText) ELSE msgprints)
       /\ console' = (IF origin = GetBranchesLabel
                        THEN Append(console, QueuedConsoleText) ELSE console)]_vars

\* C3 witness: a Submit Branch User Details call succeeded and was acknowledged
C3_Witness ==
  /\ last_answer.outcome = "success"
  /\ last_answer.call.origin = SubmitBranchUserDetailsLabel
  /\ msgprints = <<QueuedText>>

\* C4 as stated: a remote call is issued only by a button click; a form refresh or
\* a list-view load issues none.
C4_CallsOnlyFromClicks ==
  [][NewCalls # {} => \E b \in Labels : ClickOn(b)]_vars

\* the step is the refresh of a saved eTims Registered Purchases document, issuing
\* its one validation request
ValidationIssuedByRefresh ==
  /\ clicks' = clicks
  /\ route' = PurchasesForm
  /\ ~frm'[PurchasesForm].is_new
  /\ \E c \in NewCalls :
       /\ inflight' = inflight \cup {c}
       /\ c.method = validate_item_mapped_and_registered
       /\ c.origin = RefreshOrigin
       /\ latest_validation' = [id |-> c.id, answer |-> "pending"]

\* C4 amended: a remote call is issued only by a button click or by the refresh of a
\* saved eTims Registered Purchases form, which issues exactly one validation call;
\* the eTims User form refresh and the list-view loads issue none.
C4_CallsFromClicksOrPurchasesRefresh ==
  [][NewCalls # {} => (\E b \in Labels : ClickOn(b)) \/ ValidationIssuedByRefresh]_vars

\* C4 witness: a validation request is in flight and no button was ever clicked
C4_Witness ==
  /\ \A b \in Labels : clicks[b] = 0
  /\ \E c \in inflight : c.method = validate_item_mapped_and_registered
  /\ custom_buttons[PurchasesForm] = {CreateSupplierLabel, CreatePurchaseInvoiceLabel}

\* the payload of a request: request_data, or the arguments themselves where the
\* handler passes them bare
Payload(c) ==
  IF "request_data" \in DOMAIN c.args THEN c.args.request_data ELSE c.args

\* the interface table: the payload fields of each endpoint
TableFields ==
  (save_branch_user_details :>
     {"name", "company_name", "user_id", "full_names", "branch_id",
      "registration_id", "modifier_id"})
  @@ (perform_import_item_search_all_branches :> {"company_name"})
  @@ (search_branch_request :> {"company_name"})
  @@ (create_supplier_from_fetched_registered_purchases :>
        {"name", "company_name", "supplier_name", "supplier_pin", "supplier_branch_id"})
  @@ (validate_item_mapped_and_registered :> {"items"})
  @@ (create_items_from_fetched_registered_purchases :>
        {"name", "company_name", "items"})
  @@ (create_purchase_invoice_from_request :>
        {"name", "company_name", "supplier_name", "supplier_pin", "supplier_branch_id",
         "supplier_invoice_no", "supplier_invoice_date", "items"})
  @@ (perform_purchases_search_all_branches :> {"company_name"})
  @@ (create_branch_user :> {"company_name"})
  @@ (perform_stock_movement_search_all_branches :> {"company_name"})

\* C5: the payload of every call carries exactly the fields the interface table
\* lists for its endpoint, no more and no fewer.
C5_PayloadFields ==
  \A c \in KnownCalls : DOMAIN Payload(c) = TableFields[c.method]

\* C5 witness: a Create Supplier call and one more call carrying a document's fields
\* are known together
C5_Witness ==
  /\ \E c \in KnownCalls : c.method = create_supplier_from_fetched_registered_purchases
  /\ \E c \in KnownCalls : c.method = validate_item_mapped_and_registered

\* the buttons whose calls are issued without the freeze overlay
UnfrozenButtons == Labels \ {SubmitBranchUserDetailsLabel, GetImportedItemsLabel}

\* C6: no call is ever cancelled once issued: a call in flight stays in flight until
\* it is answered. (That a second click can issue a second call while the first is
\* in flight, and that the two can be answered in either order, is C6_Witness.)
C6_NoCancellation ==
  [][\A c \in inflight :
       c \in inflight' \/ (Answered /\ last_answer'.call = c)]_vars

\* C6 witness: two clicks on one unfrozen button issued two calls, and the second was
\* answered while the first is still in flight
C6_Witness ==
  /\ last_answer.outcome # "none"
  /\ last_answer.call.origin \in UnfrozenButtons
  /\ \E c \in inflight :
       /\ c.origin = last_answer.call.origin
       /\ c.id < last_answer.call.id

\* the buttons whose calls are issued with freeze: true
FreezingButtons == {SubmitBranchUserDetailsLabel, GetImportedItemsLabel}

FreezingInFlight == {c \in inflight : c.origin \in FreezingButtons}

\* C7, as an invariant: the overlay is shown exactly while a freezing call is in
\* flight, and at most one such call is
OverlayWhileInFlight ==
  /\ Frozen <=> FreezingInFlight # {}
  /\ Cardinality(FreezingInFlight) <= 1

\* C7: for the two calls issued with freeze: true the overlay is shown from the
\* moment the call is issued until it is answered, so at most one call from that
\* button is in flight at any time and no button click is accepted while it is.
C7_FreezeSerialises ==
  /\ []OverlayWhileInFlight
  /\ [][FreezingInFlight # {} => clicks' = clicks]_vars

\* C7 witness: a Submit Branch User Details call is in flight under the overlay, after
\* an earlier call of the same button was answered
C7_Witness ==
  /\ \E c \in inflight : c.origin = SubmitBranchUserDetailsLabel
  /\ Frozen
  /\ last_answer.outcome # "none"
  /\ last_answer.call.origin = SubmitBranchUserDetailsLabel

\* C8: the Create Items button is added only by the success callback of the
\* validation call and only when the response message is exactly false; a message
\* that is true or anything else, or a failed validation, adds no such button.
C8_CreateItemsOnlyOnFalse ==
  [][(/\ CreateItemsLabel \notin custom_buttons[PurchasesForm]
      /\ CreateItemsLabel \in custom_buttons'[PurchasesForm])
     => /\ AnsweredWith("success")
        /\ last_answer'.call.method = validate_item_mapped_and_registered
        /\ last_answer'.message = "false"
        /\ \A f \in Forms \ {PurchasesForm} : CreateItemsLabel \notin custom_buttons'[f]]_vars

\* C8 witness: the validation answered false and the button is on the form
C8_Witness ==
  /\ CreateItemsLabel \in custom_buttons[PurchasesForm]
  /\ last_answer.outcome = "success"
  /\ last_answer.call.method = validate_item_mapped_and_registered
  /\ last_answer.message = "false"

\* the step is the refresh hook of form f (no click handler and no callback ran)
RefreshOf(f) ==
  /\ route' = f
  /\ clicks' = clicks
  /\ ~Answered

C10_ButtonOnlyForLatestValidation ==
  CreateItemsLabel \in custom_buttons[PurchasesForm] => latest_validation.answer = "false"

====
